---- MODULE Spec2Model ----
(***************************************************************************)
(* Model of the task store of pythonproject1.py: class TodoList (the       *)
(* in-memory list `todos`, the JSON file it is loaded from and saved to)   *)
(* and the TodoApp handlers that call it.                                  *)
(*                                                                         *)
(* Python values are modelled as follows.  None is the empty tuple <<>>    *)
(* where the field otherwise holds a formatted timestamp (a non-empty      *)
(* tuple of its numeric fields, compared lexicographically like the        *)
(* string it stands for).  A `date` object is its day number counted from  *)
(* 2024-01-01, a `datetime` object is its number of seconds counted from   *)
(* 2024-01-01 00:00:00.  An optional argument is Nil or Val(x).            *)
(***************************************************************************)
EXTENDS Integers, Sequences, FiniteSets, TLC

\* ---- bounds of the model ------------------------------------------------
MaxTasks == 2      \* add_todo is called only while len(todos) < MaxTasks
MaxOps == 5        \* number of store calls in one behaviour
MaxNow == 1        \* number of times the clock advances
MaxFaults == 1     \* number of writes of the file that fail (SpecIO)

\* ---- input domains ------------------------------------------------------
TickSeconds == 60 \div 2     \* the clock advances by half a minute
Ids == 1..(MaxTasks + 1)

Nil == [nil |-> TRUE]
Val(x) == [nil |-> FALSE, v |-> x]
None == <<>>

\* the arguments add_todo is called with: no dates; due 2024-02-01 with a
\* reminder at 2024-01-01 00:01
AddInputs ==
    {[title |-> "a", description |-> "d", priority |-> "High",
      due_date |-> Nil, reminder |-> Nil],
     [title |-> "b", description |-> "d", priority |-> "Low",
      due_date |-> Val(31), reminder |-> Val(60)]}

\* the results of the edit dialog: both dates cleared; both dates set
EditInputs ==
    {[title |-> "b", description |-> "", priority |-> "Medium",
      due_date |-> Nil, reminder |-> Nil],
     [title |-> "a", description |-> "d", priority |-> "High",
      due_date |-> Val(31), reminder |-> Val(60)]}

\* ---- calendar: strftime / strptime ---------------------------------------
MonthLen == <<31, 29, 31, 30, 31, 30, 31, 31, 30, 31, 30, 31>>

RECURSIVE MonthOf(_, _)
\* month and day of month of the day-of-year `d` (0-based), scanning from month m
MonthOf(d, m) ==
    IF d < MonthLen[m] THEN <<m, d + 1>> ELSE MonthOf(d - MonthLen[m], m + 1)

RECURSIVE DaysBefore(_)
DaysBefore(m) == IF m = 1 THEN 0 ELSE MonthLen[m - 1] + DaysBefore(m - 1)

\* date.strftime("%Y-%m-%d")
StrfDate(day) == <<2024>> \o MonthOf(day, 1)

\* datetime.strptime(s, "%Y-%m-%d").date()
StrpDate(s) == DaysBefore(s[2]) + (s[3] - 1)

\* datetime.strftime("%Y-%m-%d %H:%M"): the seconds are dropped
StrfMinute(t) ==
    StrfDate(t \div 86400) \o <<(t % 86400) \div 3600, (t % 3600) \div 60>>

\* datetime.strftime("%Y-%m-%d %H:%M:%S")
StrfSecond(t) == StrfMinute(t) \o <<t % 60>>

\* datetime.strptime(s, "%Y-%m-%d %H:%M")
StrpMinute(s) == StrpDate(s) * 86400 + s[4] * 3600 + s[5] * 60

\* a <= b on two formatted timestamps of the same length, as strings:
\* the fields are zero-padded, so the order is that of the tuples of fields
RECURSIVE LexLeq(_, _)
LexLeq(a, b) ==
    IF a = <<>> THEN TRUE
    ELSE IF Head(a) # Head(b) THEN Head(a) < Head(b)
    ELSE LexLeq(Tail(a), Tail(b))

\* Python truthiness of a stored optional string
Truthy(x) == x # None

\* ---- JSON ---------------------------------------------------------------
OptKeys == {"due_date", "reminder", "created_at", "completed_at"}

\* json.dump of one value of a todo, by its Python type
JsonValue(k, x) ==
    IF k = "id" THEN [j |-> "number", n |-> x]
    ELSE IF k = "completed" THEN [j |-> IF x THEN "true" ELSE "false"]
    ELSE IF k \in OptKeys /\ x = None THEN [j |-> "null"]
    ELSE [j |-> "string", s |-> x]

\* PyValue with every JSON boolean read as true
PyValueTruthy(jv) ==
    IF jv.j = "number" THEN jv.n
    ELSE IF jv.j \in {"true", "false"} THEN TRUE
    ELSE IF jv.j = "null" THEN None
    ELSE jv.s

\* json.load of one value
PyValue(jv) ==
    IF jv.j = "number" THEN jv.n
    ELSE IF jv.j = "true" THEN TRUE
    ELSE IF jv.j = "false" THEN FALSE
    ELSE IF jv.j = "null" THEN None
    ELSE jv.s

\* json.dump(self.todos, f, indent=4): the array of objects written
JsonDump(ts) ==
    [i \in 1..Len(ts) |-> [k \in DOMAIN ts[i] |-> JsonValue(k, ts[i][k])]]

\* json.load(f) of a well-formed array of objects
JsonLoad(doc) ==
    [i \in 1..Len(doc) |-> [k \in DOMAIN doc[i] |-> PyValue(doc[i][k])]]

\* ---- state --------------------------------------------------------------
VARIABLES
    phase,    \* "closed": no TodoList object; "running"; "crashed": __init__ raised
    todos,    \* TodoList.todos
    file,     \* the file todos.json: [kind, doc]
    now,      \* datetime.now(), in seconds
    ops,      \* number of store calls made so far
    faults,   \* number of writes of the file that failed so far
    last,     \* the last store call: [op, id, result, keys, nulls]
    ui        \* TodoApp: [started, timer, dialogs, poll, shown]

vars == <<phase, todos, file, now, ops, faults, last, ui>>

\* The file: missing; "json": a well-formed array as json.dump writes it;
\* "malformed": text json.load rejects with JSONDecodeError; "undecodable":
\* bytes that are not text in the locale's encoding (UnicodeDecodeError).
Missing == [kind |-> "missing", doc |-> <<>>]
Malformed == [kind |-> "malformed", doc |-> <<>>]
Undecodable == [kind |-> "undecodable", doc |-> <<>>]
JsonFile(ts) == [kind |-> "json", doc |-> JsonDump(ts)]

\* load_todos: [raised, value]
LoadTodos(f) ==
    IF f.kind = "missing" THEN [raised |-> FALSE, value |-> <<>>]
    ELSE IF f.kind = "json" THEN [raised |-> FALSE, value |-> JsonLoad(f.doc)]
    ELSE IF f.kind = "malformed" THEN [raised |-> FALSE, value |-> <<>>]
    ELSE [raised |-> TRUE, value |-> <<>>]

\* save_todos, by the outcome of the write: "ok"; "openfail": open(..., 'w')
\* raises and the file is as before; "writefail": the file was truncated by
\* open and json.dump raises part-way.
SaveTodos(ts, f, io) ==
    IF io = "ok" THEN JsonFile(ts)
    ELSE IF io = "openfail" THEN f
    ELSE Malformed

IoOutcomes == {"ok", "openfail", "writefail"}

\* FirstIndex with the loop variable used after a loop that found nothing
RECURSIVE FirstIndexStale(_, _, _)
FirstIndexStale(ts, id, i) ==
    IF i > Len(ts) THEN Len(ts)
    ELSE IF ts[i].id = id THEN i
    ELSE FirstIndexStale(ts, id, i + 1)

\* index of the first todo whose id is `id`, 0 when there is none
RECURSIVE FirstIndex(_, _, _)
FirstIndex(ts, id, i) ==
    IF i > Len(ts) THEN 0
    ELSE IF ts[i].id = id THEN i
    ELSE FirstIndex(ts, id, i + 1)

RemoveAt(ts, i) == [j \in 1..(Len(ts) - 1) |-> IF j < i THEN ts[j] ELSE ts[j + 1]]

\* date and datetime objects are always truthy
ObjTruthy(x) == TRUE

\* NewId counting from 0
NewIdFromZero(ts) == Len(ts)

\* add_todo: the id of the new todo
NewId(ts) == Len(ts) + 1

\* add_todo: the dict built
NewTodo(ts, title, description, priority, due_date, reminder, t) ==
    [id |-> NewId(ts),
     title |-> title,
     description |-> description,
     priority |-> priority,
     due_date |-> IF ~due_date.nil /\ ObjTruthy(due_date.v)
                  THEN StrfDate(due_date.v) ELSE None,
     reminder |-> IF ~reminder.nil /\ ObjTruthy(reminder.v)
                  THEN StrfMinute(reminder.v) ELSE None,
     completed |-> FALSE,
     created_at |-> StrfSecond(t),
     completed_at |-> None]

\* update_todo: the value stored for one keyword argument that is not None
StoredValue(key, value) ==
    IF key \in {"due_date", "reminder"} /\ ObjTruthy(value)
    THEN IF key = "due_date" THEN StrfDate(value) ELSE StrfMinute(value)
    ELSE value

\* ApplyKwargs that also clears completed_at when it is not named
ApplyKwargsClearing(todo, kwargs) ==
    [k \in DOMAIN todo |->
        IF k \in DOMAIN kwargs /\ ~kwargs[k].nil
        THEN StoredValue(k, kwargs[k].v)
        ELSE IF k = "completed_at" THEN None
        ELSE todo[k]]

\* update_todo: the loop over kwargs.items() on the matching todo
ApplyKwargs(todo, kwargs) ==
    [k \in DOMAIN todo |->
        IF k \in DOMAIN kwargs /\ ~kwargs[k].nil
        THEN StoredValue(k, kwargs[k].v)
        ELSE todo[k]]

\* GetTodos with "All" taken as a priority like any other
GetTodosAllLiteral(ts, completed, priority) ==
    LET ByCompleted(todo) == todo.completed = completed.v
        ByPriority(todo) == todo.priority = priority.v
        first == IF ~completed.nil THEN SelectSeq(ts, ByCompleted) ELSE ts
    IN IF ~priority.nil
       THEN SelectSeq(first, ByPriority) ELSE first

\* get_todos
GetTodos(ts, completed, priority) ==
    LET ByCompleted(todo) == todo.completed = completed.v
        ByPriority(todo) == todo.priority = priority.v
        first == IF ~completed.nil THEN SelectSeq(ts, ByCompleted) ELSE ts
    IN IF ~priority.nil /\ priority.v # "All"
       THEN SelectSeq(first, ByPriority) ELSE first

\* sorted(...): x put into the sorted list s behind every element whose
\* due_date is not greater (the sort is stable)
RECURSIVE InsertByDue(_, _)
InsertByDue(x, s) ==
    IF s = <<>> THEN <<x>>
    ELSE IF LexLeq(Head(s).due_date, x.due_date)
         THEN <<Head(s)>> \o InsertByDue(x, Tail(s))
         ELSE <<x>> \o s

\* sorted(upcoming, key=lambda x: x["due_date"])
RECURSIVE SortedByDue(_)
SortedByDue(s) ==
    IF s = <<>> THEN <<>>
    ELSE InsertByDue(s[Len(s)], SortedByDue(SubSeq(s, 1, Len(s) - 1)))

\* GetUpcomingTodos without the test today <= due_date
GetUpcomingTodosNoFloor(ts, today, days) ==
    LET future_date == today + days
        InWindow(todo) ==
            IF Truthy(todo.due_date) /\ ~todo.completed
            THEN StrpDate(todo.due_date) <= future_date
            ELSE FALSE
    IN SortedByDue(SelectSeq(ts, InWindow))

\* get_upcoming_todos, on the day `today`
GetUpcomingTodos(ts, today, days) ==
    LET future_date == today + days
        InWindow(todo) ==
            IF Truthy(todo.due_date) /\ ~todo.completed
            THEN today <= StrpDate(todo.due_date)
                 /\ StrpDate(todo.due_date) <= future_date
            ELSE FALSE
    IN SortedByDue(SelectSeq(ts, InWindow))

\* get_todos_by_date
GetTodosByDate(ts, target_date) ==
    LET target_date_str == StrfDate(target_date)
        OnDate(todo) == todo.due_date = target_date_str
    IN SelectSeq(ts, OnDate)

\* GetStats with the completed todos taken to be those that have completed_at
GetStatsByCompletedAt(ts, today) ==
    LET Completed(todo) == Truthy(todo.completed_at)
        High(todo) == todo.priority = "High"
        Medium(todo) == todo.priority = "Medium"
        Low(todo) == todo.priority = "Low"
        Overdue(todo) ==
            IF Truthy(todo.due_date) /\ ~todo.completed
            THEN StrpDate(todo.due_date) < today
            ELSE FALSE
        total == Len(ts)
        completed == Len(SelectSeq(ts, Completed))
    IN [total |-> total,
        completed |-> completed,
        pending |-> total - completed,
        high_priority |-> Len(SelectSeq(ts, High)),
        medium_priority |-> Len(SelectSeq(ts, Medium)),
        low_priority |-> Len(SelectSeq(ts, Low)),
        overdue |-> Len(SelectSeq(ts, Overdue))]

\* get_stats, on the day `today`
GetStats(ts, today) ==
    LET Completed(todo) == todo.completed
        High(todo) == todo.priority = "High"
        Medium(todo) == todo.priority = "Medium"
        Low(todo) == todo.priority = "Low"
        Overdue(todo) ==
            IF Truthy(todo.due_date) /\ ~todo.completed
            THEN StrpDate(todo.due_date) < today
            ELSE FALSE
        total == Len(ts)
        completed == Len(SelectSeq(ts, Completed))
    IN [total |-> total,
        completed |-> completed,
        pending |-> total - completed,
        high_priority |-> Len(SelectSeq(ts, High)),
        medium_priority |-> Len(SelectSeq(ts, Medium)),
        low_priority |-> Len(SelectSeq(ts, Low)),
        overdue |-> Len(SelectSeq(ts, Overdue))]

\* date.today()
Today(t) == t \div 86400

\* CheckReminders without the test of `completed`
CheckRemindersAll(ts, t) ==
    LET Due(todo) ==
            IF Truthy(todo.reminder)
            THEN StrpMinute(todo.reminder) <= t
            ELSE FALSE
    IN SelectSeq(ts, Due)

\* check_reminders, at the time t
CheckReminders(ts, t) ==
    LET Due(todo) ==
            IF Truthy(todo.reminder) /\ ~todo.completed
            THEN StrpMinute(todo.reminder) <= t
            ELSE FALSE
    IN SelectSeq(ts, Due)

\* a record of a store call; for update_todo, `keys` are the names of the
\* keyword arguments passed and `nulls` those of them passed as None
CallKw(op, id, result, kwargs) ==
    [op |-> op, id |-> id, result |-> result, keys |-> DOMAIN kwargs,
     nulls |-> {k \in DOMAIN kwargs : kwargs[k].nil}]
Call(op, id, result) == [op |-> op, id |-> id, result |-> result, keys |-> {}, nulls |-> {}]

\* the arguments of a read-only call that has none
NoArgs == [completed |-> Nil, priority |-> Nil, days |-> 0, date |-> 0]
NoStats == [total |-> 0, completed |-> 0, pending |-> 0, high_priority |-> 0,
            medium_priority |-> 0, low_priority |-> 0, overdue |-> 0]

\* a record of a read-only call: its arguments and what it returned
Shown(call, args, value, stats) ==
    [call |-> call, args |-> args, value |-> value, stats |-> stats]

\* TodoApp before __init__ has run: nothing shown, no timer, no message box
UiIdle ==
    [started |-> FALSE, timer |-> FALSE, dialogs |-> 0, poll |-> 0,
     shown |-> Shown("none", NoArgs, <<>>, NoStats)]

Init ==
    /\ phase = "closed"
    /\ todos = <<>>
    /\ file \in {Missing, Malformed, Undecodable}
    /\ now = TickSeconds
    /\ ops = 0
    /\ faults = 0
    /\ last = Call("none", 0, "none")
    /\ ui = UiIdle

\* TodoList.__init__: self.todos = self.load_todos()
Open ==
    /\ phase = "closed"
    /\ LET r == LoadTodos(file) IN
        /\ phase' = IF r.raised THEN "crashed" ELSE "running"
        /\ todos' = r.value
        /\ last' = Call("load", 0, IF r.raised THEN "raised" ELSE "list")
    /\ UNCHANGED <<file, now, ops, faults, ui>>

\* the process ends; the TodoList object is gone
Quit ==
    /\ phase = "running"
    /\ phase' = "closed"
    /\ todos' = <<>>
    /\ last' = Call("quit", 0, "none")
    /\ ui' = UiIdle
    /\ UNCHANGED <<file, now, ops, faults>>

\* the clock advances
Tick ==
    /\ now % 86400 < (MaxNow + 1) * TickSeconds
    /\ now' = now + TickSeconds
    /\ UNCHANGED <<phase, todos, file, ops, faults, last, ui>>

\* what a store call that reaches save_todos does to file, ops and faults
Saved(ts, io) ==
    /\ ops < MaxOps
    /\ io # "ok" => faults < MaxFaults
    /\ file' = SaveTodos(ts, file, io)
    /\ faults' = IF io = "ok" THEN faults ELSE faults + 1
    /\ ops' = ops + 1

\* add_todo
AddTodo(title, description, priority, due_date, reminder, io) ==
    /\ phase = "running"
    /\ Len(todos) < MaxTasks
    /\ todos' = Append(todos, NewTodo(todos, title, description, priority,
                                      due_date, reminder, now))
    /\ Saved(todos', io)
    /\ last' = Call("create", NewId(todos),
                    IF io = "ok" THEN "todo" ELSE "raised")
    /\ UNCHANGED <<phase, now, ui>>

\* update_todo
UpdateTodo(id, kwargs, io) ==
    /\ phase = "running"
    /\ LET i == FirstIndex(todos, id, 1) IN
        IF i = 0
        THEN /\ io = "ok"
             /\ ops < MaxOps
             /\ ops' = ops + 1
             /\ last' = CallKw("update", id, "False", kwargs)
             /\ UNCHANGED <<todos, file, faults>>
        ELSE /\ todos' = [todos EXCEPT ![i] = ApplyKwargs(todos[i], kwargs)]
             /\ Saved(todos', io)
             /\ last' = CallKw("update", id,
                               IF io = "ok" THEN "True" ELSE "raised", kwargs)
    /\ UNCHANGED <<phase, now, ui>>

\* delete_todo
DeleteTodo(id, io) ==
    /\ phase = "running"
    /\ LET i == FirstIndex(todos, id, 1) IN
        IF i = 0
        THEN /\ io = "ok"
             /\ ops < MaxOps
             /\ ops' = ops + 1
             /\ last' = Call("delete", id, "False")
             /\ UNCHANGED <<todos, file, faults>>
        ELSE /\ todos' = RemoveAt(todos, i)
             /\ Saved(todos', io)
             /\ last' = Call("delete", id,
                             IF io = "ok" THEN "True" ELSE "raised")
    /\ UNCHANGED <<phase, now, ui>>

\* TodoApp.toggle_complete on the selected row, whose id is `id`
ToggleComplete(id, io) ==
    /\ phase = "running"
    /\ FirstIndex(todos, id, 1) # 0
    /\ LET todo == todos[FirstIndex(todos, id, 1)]
           completed == ~todo.completed
           completed_at == IF completed THEN Val(StrfSecond(now)) ELSE Nil
       IN UpdateTodo(todo.id,
                     [completed |-> Val(completed), completed_at |-> completed_at],
                     io)

\* TodoDialog.ok: the reminder chosen must not be in the past
DialogAccepts(reminder) == IF reminder.nil THEN TRUE ELSE ~(reminder.v < now)

\* TodoApp.edit_todo on the selected row, with the dialog's result
EditTodo(id, title, description, priority, due_date, reminder, io) ==
    /\ phase = "running"
    /\ FirstIndex(todos, id, 1) # 0
    /\ DialogAccepts(reminder)
    /\ UpdateTodo(todos[FirstIndex(todos, id, 1)].id,
                  [title |-> Val(title), description |-> Val(description),
                   priority |-> Val(priority), due_date |-> due_date,
                   reminder |-> reminder],
                  io)

\* the keyword arguments update_todo is called with as None, one at a time
NullableKeys == {"title", "completed", "due_date", "reminder"}

\* the calls of one step, the writes of the file ending as `io` says
Step(io) ==
    \/ \E a \in AddInputs :
            AddTodo(a.title, a.description, a.priority, a.due_date, a.reminder, io)
    \/ \E id \in Ids, k \in NullableKeys :
            UpdateTodo(id, [x \in {k} |-> Nil], io)
    \/ \E id \in Ids : UpdateTodo(id, [colour |-> Val("red")], io)
    \/ \E id \in Ids : DeleteTodo(id, io)
    \/ \E id \in Ids : ToggleComplete(id, io)
    \/ \E id \in Ids, e \in EditInputs :
            EditTodo(id, e.title, e.description, e.priority, e.due_date,
                     e.reminder, io)

Next == Open \/ Quit \/ Tick \/ Step("ok")

NextIO == Open \/ Quit \/ Tick \/ (\E io \in IoOutcomes : Step(io))

\* every write of the file succeeds
Spec == Init /\ [][Next]_vars

\* writes of the file may fail
SpecIO == Init /\ [][NextIO]_vars

\* ---- the application on a stored list: read-only calls and the poll ------
\* the day the application is run on: the week ahead crosses a month's end
AppDay == StrpDate(<<2024, 1, 28>>)

\* a stored todo that is not completed, created on 2024-01-01
Stored(priority, due_date, reminder) ==
    NewTodo(<<>>, "t", "d", priority, due_date, reminder, 0)

\* the todos a stored list is made of: due yesterday; due on the last day of
\* the week ahead, with a reminder a minute after midnight of AppDay; due a
\* day later, made active again after it was completed; completed, due within
\* the week, its reminder past; without due date, its reminder past; due today
QueryTasks ==
    {Stored("High", Val(AppDay - 1), Nil),
     Stored("Low", Val(AppDay + 7), Val(AppDay * 86400 + 60)),
     [Stored("Medium", Val(AppDay + 8), Nil) EXCEPT !.completed_at = StrfSecond(60)],
     [Stored("High", Val(AppDay + 4), Val(60))
        EXCEPT !.completed = TRUE, !.completed_at = StrfSecond(60)],
     Stored("Low", Nil, Val(60)),
     Stored("Medium", Val(AppDay), Nil)}

\* the lists add_todo builds of them: the ids are the positions
StoredLists ==
    LET Renumber(l) == [i \in 1..Len(l) |-> [l[i] EXCEPT !.id = i]]
    IN {Renumber(l) : l \in UNION {[1..n -> QueryTasks] : n \in 0..MaxTasks}}

InitApp ==
    /\ phase = "closed"
    /\ todos = <<>>
    /\ file \in {JsonFile(l) : l \in StoredLists}
    /\ now = AppDay * 86400 + TickSeconds
    /\ ops = 0
    /\ faults = 0
    /\ last = Call("none", 0, "none")
    /\ ui = UiIdle

\* a read-only call may be made: the window is up and no message box is open
Idle == phase = "running" /\ ui.started /\ ui.dialogs = 0

\* TodoApp.__init__ after TodoList(): refresh_list shows get_todos(None) and
\* get_stats(); check_reminders opens a modal message box for each reminder
\* and returns when the last is closed; only then the timer is armed
AppStart ==
    /\ phase = "running"
    /\ ~ui.started
    /\ LET reminders == CheckReminders(todos, now) IN
        ui' = [started |-> TRUE,
               timer |-> reminders = <<>>,
               dialogs |-> Len(reminders),
               poll |-> 0,
               shown |-> Shown("refresh", NoArgs, GetTodos(todos, Nil, Nil),
                               GetStats(todos, Today(now)))]
    /\ UNCHANGED <<phase, todos, file, now, ops, faults, last>>

\* the user closes the message box; after the last one check_reminders
\* returns and its caller arms the timer
Dismiss ==
    /\ phase = "running"
    /\ ui.dialogs > 0
    /\ ui' = [ui EXCEPT !.dialogs = @ - 1, !.timer = (ui.dialogs = 1)]
    /\ UNCHANGED <<phase, todos, file, now, ops, faults, last>>

\* check_reminders_periodically, run by the timer: check_reminders, then
\* root.after once check_reminders has returned
PollPeriodically ==
    /\ Idle
    /\ ui.timer
    /\ LET reminders == CheckReminders(todos, now) IN
        ui' = [ui EXCEPT !.timer = (reminders = <<>>),
                         !.dialogs = Len(reminders),
                         !.poll = 1 - @,
                         !.shown = Shown("reminders", NoArgs, reminders, NoStats)]
    /\ UNCHANGED <<phase, todos, file, now, ops, faults, last>>

\* the filters get_todos is called with
CompletedArgs == {Nil, Val(TRUE), Val(FALSE)}
PriorityArgs == {Nil, Val("All"), Val("High"), Val("Low")}

\* get_todos(completed, priority)
GetTodosCall(completed, priority) ==
    /\ Idle
    /\ ui' = [ui EXCEPT !.shown =
                Shown("query",
                      [NoArgs EXCEPT !.completed = completed, !.priority = priority],
                      GetTodos(todos, completed, priority), NoStats)]
    /\ UNCHANGED <<phase, todos, file, now, ops, faults, last>>

\* get_upcoming_todos with its result stored back into self.todos
GetUpcomingTodosCallInPlace(days) ==
    /\ Idle
    /\ ui' = [ui EXCEPT !.shown =
                Shown("upcoming", [NoArgs EXCEPT !.days = days],
                      GetUpcomingTodos(todos, Today(now), days), NoStats)]
    /\ todos' = GetUpcomingTodos(todos, Today(now), days)
    /\ UNCHANGED <<phase, file, now, ops, faults, last>>

\* get_upcoming_todos(days)
GetUpcomingTodosCall(days) ==
    /\ Idle
    /\ ui' = [ui EXCEPT !.shown =
                Shown("upcoming", [NoArgs EXCEPT !.days = days],
                      GetUpcomingTodos(todos, Today(now), days), NoStats)]
    /\ UNCHANGED <<phase, todos, file, now, ops, faults, last>>

\* get_todos_by_date(target_date)
GetTodosByDateCall(target_date) ==
    /\ Idle
    /\ ui' = [ui EXCEPT !.shown =
                Shown("byDate", [NoArgs EXCEPT !.date = target_date],
                      GetTodosByDate(todos, target_date), NoStats)]
    /\ UNCHANGED <<phase, todos, file, now, ops, faults, last>>

\* get_stats()
GetStatsCall ==
    /\ Idle
    /\ ui' = [ui EXCEPT !.shown =
                Shown("stats", NoArgs, <<>>, GetStats(todos, Today(now)))]
    /\ UNCHANGED <<phase, todos, file, now, ops, faults, last>>

\* the calls of the application on the stored list
NextApp ==
    \/ Open
    \/ Quit
    \/ Tick
    \/ AppStart
    \/ Dismiss
    \/ PollPeriodically
    \/ \E c \in CompletedArgs, p \in PriorityArgs : GetTodosCall(c, p)
    \/ \E days \in {0, 7} : GetUpcomingTodosCall(days)
    \/ \E d \in {AppDay, AppDay + 7} : GetTodosByDateCall(d)
    \/ GetStatsCall

\* the timer of root.after runs its callback once it is armed; nothing makes
\* the user close a message box
SpecApp == InitApp /\ [][NextApp]_vars /\ WF_vars(PollPeriodically)

\* ---- properties ---------------------------------------------------------
Mutators == {"create", "update", "delete"}
HasId(ts, id) == \E i \in 1..Len(ts) : ts[i].id = id
Range(seq) == {seq[i] : i \in 1..Len(seq)}

\* C1: no two tasks in the task list have the same id.
C1_UniqueIds ==
    \A i, j \in 1..Len(todos) : i # j => todos[i].id # todos[j].id

\* C2: after delete(id), a query with no filters returns no task whose id
\* is that id.
C2_DeletedIdNotReturned ==
    last.op = "delete" =>
        \A t \in Range(GetTodos(todos, Nil, Nil)) : t.id # last.id

\* C3: with completion toggled the way toggle_complete does it, every task
\* has completed_at non-null if and only if completed is true.
C3_CompletedAtIffCompleted ==
    \A i \in 1..Len(todos) :
        (todos[i].completed_at # None) <=> todos[i].completed

\* C4: an update of an existing task that passes an explicit None clears
\* the field when it is due_date or reminder, and leaves any other field
\* as it was.
C4_NullClearsDatesOnly ==
    [][(ops' = ops + 1 /\ last'.op = "update" /\ last'.result = "True") =>
        \A i \in 1..Len(todos) :
            (todos[i].id = last'.id /\ ~HasId(SubSeq(todos, 1, i - 1), last'.id)) =>
                \A k \in last'.nulls :
                    IF k \in {"due_date", "reminder"}
                    THEN todos'[i][k] = None
                    ELSE todos'[i][k] = todos[i][k]]_vars

\* C5: after a create, update or delete call has finished, normally or with
\* a persistence error, the list stored in the file is the in-memory list.
C5_FileMatchesMemory ==
    (phase = "running" /\ last.op \in Mutators) =>
        /\ ~LoadTodos(file).raised
        /\ LoadTodos(file).value = todos

\* C6: each create assigns id = number of tasks before the call + 1, and a
\* create that directly follows a create in the same session assigns a
\* strictly greater id.
C6_CreateIdsIncrease ==
    [][(ops' = ops + 1 /\ last'.op = "create") =>
        /\ Len(todos') = Len(todos) + 1
        /\ todos'[Len(todos')].id = Len(todos) + 1
        /\ last.op = "create" => todos'[Len(todos')].id > todos[Len(todos)].id]_vars

C6_Witness ==
    /\ last.op = "create"
    /\ ops = 2
    /\ Len(todos) = 2
    /\ todos[1].id < todos[2].id

\* C7: update and delete of an id no task has return False and leave the
\* list and the file as they were; of an id some task has, they return True
\* and the file holds the resulting list.
C7_MissingIdIsFalse ==
    [][(ops' = ops + 1 /\ last'.op \in {"update", "delete"}) =>
        IF HasId(todos, last'.id)
        THEN /\ last'.result = "True"
             /\ file'.kind = "json"
             /\ JsonLoad(file'.doc) = todos'
        ELSE /\ last'.result = "False"
             /\ todos' = todos
             /\ file' = file]_vars

C7_Witness ==
    /\ last.op = "delete"
    /\ last.result = "False"
    /\ Len(todos) > 0
    /\ file = JsonFile(todos)

\* C8: check_reminders returns exactly the tasks that are not completed and
\* whose reminder is present and not after now, in list order; a task it
\* returns is returned again after any step that leaves the task's reminder
\* in place and the task not completed; it returns no completed task.
DueAt(todo, t) ==
    /\ ~todo.completed
    /\ todo.reminder # None
    /\ LexLeq(todo.reminder, StrfMinute(t))

C8_DueReminders ==
    /\ [](CheckReminders(todos, now) =
            LET Due(todo) == DueAt(todo, now) IN SelectSeq(todos, Due))
    /\ [][\A i \in 1..Len(todos), j \in 1..Len(todos') :
            (/\ todos[i] \in Range(CheckReminders(todos, now))
             /\ todos'[j].id = todos[i].id
             /\ todos'[j].reminder = todos[i].reminder
             /\ ~todos'[j].completed)
            => todos'[j] \in Range(CheckReminders(todos', now'))]_vars

C8_Witness ==
    /\ Len(todos) = 2
    /\ todos[1].completed
    /\ todos[1].reminder # None
    /\ StrpMinute(todos[1].reminder) <= now
    /\ CheckReminders(todos, now) = <<todos[2]>>

\* C9: the list a fresh store loads from the file is the list of the
\* running store, field for field and in the same order.
C9_RoundTrip ==
    phase = "running" =>
        /\ ~LoadTodos(file).raised
        /\ LoadTodos(file).value = todos

C9_Witness ==
    /\ phase = "running"
    /\ last.op \in Mutators
    /\ Len(todos) = 2
    /\ todos[1].completed
    /\ todos[1].completed_at # None
    /\ todos[2].due_date = None
    /\ todos[1].due_date # None

\* C10: creating a store never raises; when the file is missing or does
\* not hold a task list the store starts with an empty list.
C10_LoadNeverFails ==
    /\ phase # "crashed"
    /\ (last.op = "load" /\ file.kind # "json") => todos = <<>>

\* C11: what get_upcoming_todos(days) returns is exactly the todos that are
\* not completed and whose due date lies between today and today + days,
\* both included, each once, in ascending order of due date; a todo that is
\* completed, has no due date, is due before today or later than
\* today + days is never returned.
C11_UpcomingWindow ==
    (phase = "running" /\ ui.shown.call = "upcoming") =>
        LET r == ui.shown.value
            first == StrfDate(Today(now))
            final == StrfDate(Today(now) + ui.shown.args.days)
            InWindow(todo) ==
                IF todo.due_date = None \/ todo.completed THEN FALSE
                ELSE LexLeq(first, todo.due_date) /\ LexLeq(todo.due_date, final)
        IN /\ Range(r) = {todos[i] : i \in {p \in 1..Len(todos) : InWindow(todos[p])}}
           /\ Len(r) = Cardinality({p \in 1..Len(todos) : InWindow(todos[p])})
           /\ \A i \in 1..Len(r) :
                /\ ~r[i].completed
                /\ r[i].due_date # None
                /\ Today(now) <= StrpDate(r[i].due_date)
                /\ StrpDate(r[i].due_date) <= Today(now) + ui.shown.args.days
           /\ \A i \in 1..Len(r), j \in 1..Len(r) :
                i < j => StrpDate(r[i].due_date) <= StrpDate(r[j].due_date)

\* the week ahead of a list whose second todo is due today and whose first
\* is due on the last day of the week: both returned, the second one first
C11_Witness ==
    /\ phase = "running"
    /\ ui.shown.call = "upcoming"
    /\ ui.shown.args.days = 7
    /\ Len(todos) = 2
    /\ todos[1].due_date # None
    /\ StrpDate(todos[1].due_date) = Today(now) + 7
    /\ ui.shown.value = <<todos[2], todos[1]>>

\* C12: while the application runs, every check of the reminders is
\* eventually followed by a run of check_reminders_periodically (ui.poll
\* changes at each run), whatever the stored todos are.
C12_PollRecurs ==
    \A b \in {0, 1} :
        [](  (phase = "running" /\ ui.started /\ ui.poll = b)
          => <>(ui.poll # b \/ phase # "running"))

\* C13: what get_todos(completed, priority) returns is the todos that match
\* every filter given, in the order of the list; a filter that is omitted
\* matches every todo, and so does the priority "All".
C13_QueryFilters ==
    (phase = "running" /\ ui.shown.call = "query") =>
        LET completed == ui.shown.args.completed
            priority == ui.shown.args.priority
            Matches(todo) ==
                /\ IF completed.nil THEN TRUE ELSE todo.completed = completed.v
                /\ IF priority.nil THEN TRUE
                   ELSE IF priority.v = "All" THEN TRUE
                   ELSE todo.priority = priority.v
            OfStatus(todo) ==
                IF completed.nil THEN TRUE ELSE todo.completed = completed.v
        IN /\ ui.shown.value = SelectSeq(todos, Matches)
           /\ priority = Val("All") => ui.shown.value = SelectSeq(todos, OfStatus)
           /\ (completed.nil /\ priority.nil) => ui.shown.value = todos

\* get_todos(False, "All") on a completed todo followed by an active one
C13_Witness ==
    /\ phase = "running"
    /\ ui.shown.call = "query"
    /\ ui.shown.args.completed = Val(FALSE)
    /\ ui.shown.args.priority = Val("All")
    /\ Len(todos) = 2
    /\ todos[1].completed
    /\ ui.shown.value = <<todos[2]>>

\* C14: in what get_stats returns, total is completed plus pending, total
\* is the number of todos in the list and completed is the number of todos
\* whose completed is true.
C14_StatsAddUp ==
    (phase = "running" /\ ui.shown.call \in {"stats", "refresh"}) =>
        LET stats == ui.shown.stats
            Done(todo) == todo.completed
        IN /\ stats.total = stats.completed + stats.pending
           /\ stats.total = Len(todos)
           /\ stats.completed = Cardinality({p \in 1..Len(todos) : Done(todos[p])})

\* get_stats on an active todo that still has the completed_at of an earlier
\* completion, followed by a completed todo
C14_Witness ==
    /\ phase = "running"
    /\ ui.shown.call = "stats"
    /\ Len(todos) = 2
    /\ ~todos[1].completed
    /\ todos[1].completed_at # None
    /\ todos[2].completed
    /\ ui.shown.stats.completed = 1
    /\ ui.shown.stats.pending = 1

\* C15: a step of the running application that is a read-only call
\* (get_todos, get_upcoming_todos, get_todos_by_date, get_stats), a run of
\* the reminder poll or the closing of a reminder box leaves the list in
\* memory and the file as they were.
C15_ReadsChangeNothing ==
    [][(phase = "running" /\ phase' = "running" /\ ui' # ui)
        => (todos' = todos /\ file' = file)]_vars

\* the poll has run on a list of two todos and reports one of them; the
\* list is still the list of the file
C15_Witness ==
    /\ phase = "running"
    /\ ui.shown.call = "reminders"
    /\ ui.poll = 1
    /\ Len(todos) = 2
    /\ Len(ui.shown.value) = 1
    /\ file = JsonFile(todos)

\* C16: a call of update_todo(id, ...) leaves the number and the order of
\* the todos as they were; the only todo it may change is the first one
\* whose id is `id`, and in it only the fields named in the call.
C16_UpdateFrame ==
    [][(last'.op = "update" /\ ops' = ops + 1) =>
        /\ Len(todos') = Len(todos)
        /\ \A i \in 1..Len(todos) :
            /\ DOMAIN todos'[i] = DOMAIN todos[i]
            /\ todos'[i].id = todos[i].id
            /\ todos'[i] # todos[i] =>
                    /\ todos[i].id = last'.id
                    /\ \A j \in 1..(i - 1) : todos[j].id # last'.id
            /\ \A k \in DOMAIN todos[i] :
                    todos'[i][k] # todos[i][k] => k \in last'.keys]_vars

\* two todos have the same id and update_todo has completed the first only
C16_Witness ==
    /\ last.op = "update"
    /\ last.result = "True"
    /\ Len(todos) = 2
    /\ todos[1].id = todos[2].id
    /\ last.id = todos[1].id
    /\ todos[1].completed
    /\ ~todos[2].completed

====
